---- MODULE Spec2Model ----
(***************************************************************************)
(* A model of backend/src/scripts/opencv_converter.py: one invocation of   *)
(* the raster-to-SVG converter, from main() to process exit.               *)
(*                                                                         *)
(* The vision library is an external collaborator.  Its results are the    *)
(* inputs of the model: whether imread decodes the file, the image size,   *)
(* the contours findContours returns for each mask (each with the area     *)
(* contourArea reports and the polygon approxPolyDP returns for the run's  *)
(* epsilon), and whether a library call of a pass raises.  The optional    *)
(* parameters `threshold` and `smooth` only change which masks the library *)
(* builds, so they are part of that choice.                                *)
(***************************************************************************)
EXTENDS Integers, Sequences, FiniteSets, TLC

\* ------------------------------------------------------------------ bounds
\* largest contour area and largest minArea value tried
MaxArea == 1
\* largest vertex count of a simplified polygon
MaxVerts == 3
\* largest number of contours the library finds in one run, all passes together
MaxShapes == 2
\* largest pixel coordinate of a polygon vertex handed to create_svg_path
MaxCoord == 1

\* ------------------------------------------------------- program constants
\* len(sys.argv) of a well-formed invocation
ExpectedArgc == 4
\* fewest vertices of a polygon that is kept or serialised
MinVertices == 3
\* intensity of a full colour channel and base of the gray value
FullIntensity == 255
\* default scale factors of create_svg_path
DefaultScale == 1

threshold_levels == <<32, 64, 96, 128, 160, 192, 224>>
channel_names == <<"blue", "green", "red">>

\* --------------------------------------------------------------- data sets
Modes == {"binary", "grayscale", "color", "sepia"}
Keys == {"colorMode", "minArea", "epsilon"}

Restrict(f, K) == [k \in K |-> f[k]]

\* the JSON objects tried: every subset of the three required keys
ParamObjects ==
    { Restrict(full, K) :
        full \in [colorMode : Modes, minArea : 0..MaxArea, epsilon : {1}],
        K \in SUBSET Keys }

\* sys.argv[3]: text that does not parse, JSON that is no object, or an object
ParamArgs ==
    {[kind |-> "malformed", obj |-> <<>>], [kind |-> "nonobject", obj |-> <<>>]}
    \cup {[kind |-> "object", obj |-> o] : o \in ParamObjects}

\* the file at sys.argv[1]: not decodable, or an image of some size
Images ==
    {[ok |-> FALSE, rows |-> 0, cols |-> 0]}
    \cup {[ok |-> TRUE, rows |-> 1, cols |-> 2], [ok |-> TRUE, rows |-> 2, cols |-> 1]}

\* a polygon with n vertices, as an (n,1,2) contour array: a sequence of points
Poly(n) == [i \in 1..n |-> <<i, i * i>>]

\* a raw contour: its contourArea and what approxPolyDP makes of it
Contours == [area : 0..MaxArea, simp : {Poly(n) : n \in (MinVertices - 1)..MaxVerts}]

SeqsUpTo(S, k) == UNION {[1..m -> S] : m \in 0..k}

\* --------------------------------------------------------------- colours
Rgb(r, g, b) == <<"rgb", r, g, b>>
Black == <<"#000000">>

\* lines 117-118
GrayColor(threshold) ==
    LET gray_value == FullIntensity - threshold
    IN  Rgb(gray_value, gray_value, gray_value)

ChannelColorSameIndex(channel) ==
    LET color_values == [i \in 0..2 |-> IF i = channel THEN FullIntensity ELSE 0]
    IN  Rgb(color_values[0], color_values[1], color_values[2])

\* lines 158-160
ChannelColor(channel) ==
    LET color_values == [i \in 0..2 |-> IF i = 2 - channel THEN FullIntensity ELSE 0]
    IN  Rgb(color_values[0], color_values[1], color_values[2])

\* the fill colour of pass p (1-based) of a mode
PassColor(mode, p) ==
    CASE mode = "binary" -> Black
      [] mode = "grayscale" -> GrayColor(threshold_levels[p])
      [] mode = "color" -> ChannelColor(p - 1)

ModeBranchFallThrough(colorMode) ==
    IF colorMode \in {"binary", "grayscale"} THEN colorMode ELSE "color"

\* the if/elif chain of lines 40, 90, 131
ModeBranch(colorMode) ==
    IF colorMode \in {"binary", "grayscale", "color"} THEN colorMode ELSE "none"

\* number of masks a branch builds
NPasses(mode) ==
    CASE mode = "binary" -> 1
      [] mode = "grayscale" -> Len(threshold_levels)
      [] mode = "color" -> Len(channel_names)
      [] OTHER -> 0

\* ------------------------------------------------------- path serializer
RECURSIVE LineTo(_, _, _, _)
\* the loop of lines 15-17, from index i (1-based) on
LineTo(contour, i, scale_x, scale_y) ==
    IF i > Len(contour) THEN <<>>
    ELSE <<[cmd |-> "L", x |-> contour[i][1] * scale_x, y |-> contour[i][2] * scale_y]>>
         \o LineTo(contour, i + 1, scale_x, scale_y)

create_svg_path_skip(contour, scale_x, scale_y) ==
    IF Len(contour) < MinVertices THEN <<>>
    ELSE <<[cmd |-> "M", x |-> contour[1][1] * scale_x, y |-> contour[1][2] * scale_y]>>
         \o LineTo(contour, 3, scale_x, scale_y)
         \o <<[cmd |-> "Z"]>>

\* create_svg_path: the string as its sequence of commands, "" as <<>>
create_svg_path(contour, scale_x, scale_y) ==
    IF Len(contour) < MinVertices THEN <<>>
    ELSE <<[cmd |-> "M", x |-> contour[1][1] * scale_x, y |-> contour[1][2] * scale_y]>>
         \o LineTo(contour, 2, scale_x, scale_y)
         \o <<[cmd |-> "Z"]>>

RECURSIVE SvgPaths(_, _)
\* the loop of lines 179-182: the <path> elements appended to svg_content
SvgPaths(shapes, cols) ==
    IF shapes = <<>> \/ cols = <<>> THEN <<>>
    ELSE LET path_data == create_svg_path(Head(shapes).pts, DefaultScale, DefaultScale)
         IN  (IF path_data # <<>>
                THEN <<[d |-> path_data, fill |-> Head(cols), stroke |-> "none"]>>
                ELSE <<>>)
             \o SvgPaths(Tail(shapes), Tail(cols))

RECURSIVE SumLen(_)
\* sum(len(c) for c in contours_list)
SumLen(shapes) ==
    IF shapes = <<>> THEN 0 ELSE Len(Head(shapes).pts) + SumLen(Tail(shapes))

\* ------------------------------------------------------ contour extractor
\* str(KeyError(key)), the message of a missing dict key
KeyErrorText(key) ==
    CASE key = "colorMode" -> "'colorMode'"
      [] key = "minArea" -> "'minArea'"
      [] key = "epsilon" -> "'epsilon'"

AreaPassesInverted(area, minArea) == area <= minArea

AreaPassesAlways(area, minArea) == TRUE

\* lines 77, 122, 164
AreaPasses(area, minArea) == area >= minArea

EnoughVerticesTwo(simplified) == Len(simplified) >= MinVertices - 1

\* lines 84, 127, 169
EnoughVertices(simplified) == Len(simplified) >= MinVertices

\* cv2.approxPolyDP(contour, epsilon, True)
approxPolyDP(contour) == contour.simp

\* One iteration of the loops of lines 75-86, 120-129, 162-171 on contour c.
\* A retained shape keeps, beside its vertices, the area and the pass it came
\* from.  raised is the KeyError message, "" when nothing is raised.
LoopBody(c, prm, color, p, list, cols) ==
    IF "minArea" \notin DOMAIN prm
      THEN [raised |-> KeyErrorText("minArea"), contours_list |-> list, colors |-> cols]
    ELSE IF ~AreaPasses(c.area, prm.minArea)
      THEN [raised |-> "", contours_list |-> list, colors |-> cols]
    ELSE IF "epsilon" \notin DOMAIN prm
      THEN [raised |-> KeyErrorText("epsilon"), contours_list |-> list, colors |-> cols]
    ELSE LET simplified == approxPolyDP(c)
         IN  IF EnoughVertices(simplified)
               THEN [raised |-> "",
                     contours_list |->
                         Append(list, [pts |-> simplified, area |-> c.area, pass |-> p]),
                     colors |-> Append(cols, color)]
               ELSE [raised |-> "", contours_list |-> list, colors |-> cols]

RECURSIVE RunLoop(_, _, _, _, _, _)
\* the whole loop over the contours cs of one mask; stops at the first raise
RunLoop(cs, prm, color, p, list, cols) ==
    IF cs = <<>> THEN [raised |-> "", contours_list |-> list, colors |-> cols]
    ELSE LET r == LoopBody(Head(cs), prm, color, p, list, cols)
         IN  IF r.raised # "" THEN r
             ELSE RunLoop(Tail(cs), prm, color, p, r.contours_list, r.colors)

\* ------------------------------------------------------------------- state
VARIABLES
    argc,           \* len(sys.argv)
    params_json,    \* sys.argv[3] and what json.loads makes of it
    image,          \* the file at sys.argv[1]
    pc,             \* position of the run
    width, height,  \* img.shape[:2], line 30
    pass,           \* 1-based index of the threshold level / channel in progress
    contours,       \* contours of the current mask not yet visited
    contours_list,  \* line 37
    colors,         \* line 38
    nFound,         \* contours returned by findContours so far in this run
    svg_content,    \* the document assembled in lines 174-184
    file,           \* the file at sys.argv[2]
    stdout, stderr,
    exit_code,      \* process exit status, meaningful once pc = "exit"
    runA, runB,     \* two runs of the contour extractor on one image
    mpass, mFound,  \* their common pass index and contour count
    contour,        \* argument of a create_svg_path call
    path_data,      \* its result
    written,        \* <path> elements appended for it
    called          \* whether the call has been made

mainVars == <<argc, params_json, image, pc, width, height, pass, contours,
              contours_list, colors, nFound, svg_content, file, stdout, stderr,
              exit_code>>
monoVars == <<runA, runB, mpass, mFound>>
pathVars == <<contour, path_data, written, called>>
vars == <<mainVars, monoVars, pathVars>>

EmptyDoc == [width |-> 0, height |-> 0, paths |-> <<>>]
Untouched == [state |-> "untouched", doc |-> EmptyDoc]
IdleRun == [prm |-> <<>>, contours_list |-> <<>>, colors |-> <<>>, raised |-> ""]

MonoIdle == runA = IdleRun /\ runB = IdleRun /\ mpass = 0 /\ mFound = 0
PathIdle == contour = <<>> /\ path_data = <<>> /\ written = <<>> /\ called = FALSE
MainIdle ==
    /\ argc = 0
    /\ params_json = [kind |-> "malformed", obj |-> <<>>]
    /\ image = [ok |-> FALSE, rows |-> 0, cols |-> 0]
    /\ pc = "off"
    /\ width = 0 /\ height = 0 /\ pass = 0 /\ nFound = 0
    /\ contours = <<>> /\ contours_list = <<>> /\ colors = <<>>
    /\ svg_content = EmptyDoc /\ file = Untouched
    /\ stdout = <<>> /\ stderr = <<>> /\ exit_code = 0

params == params_json.obj

\* ---------------------------------------------------------- one invocation
Init ==
    /\ argc \in {ExpectedArgc - 1, ExpectedArgc, ExpectedArgc + 1}
    /\ params_json \in ParamArgs
    /\ image \in Images
    /\ pc = "main"
    /\ width = 0 /\ height = 0 /\ pass = 0 /\ nFound = 0
    /\ contours = <<>> /\ contours_list = <<>> /\ colors = <<>>
    /\ svg_content = EmptyDoc /\ file = Untouched
    /\ stdout = <<>> /\ stderr = <<>> /\ exit_code = 0
    /\ MonoIdle /\ PathIdle

RaiseExitZero(message) ==
    /\ stderr' = Append(stderr, <<"Error:", message>>)
    /\ exit_code' = 0
    /\ pc' = "exit"

\* an exception reaching the handler of lines 206-208
Raise(message) ==
    /\ stderr' = Append(stderr, <<"Error:", message>>)
    /\ exit_code' = 1
    /\ pc' = "exit"

\* lines 194-196
Usage ==
    /\ pc = "main" /\ argc # ExpectedArgc
    /\ stdout' = Append(stdout, [line |-> "Usage"])
    /\ exit_code' = 1
    /\ pc' = "exit"
    /\ UNCHANGED <<argc, params_json, image, width, height, pass, contours,
                   contours_list, colors, nFound, svg_content, file, stderr>>
    /\ UNCHANGED <<monoVars, pathVars>>

\* line 203, json.loads raising
ParseFails ==
    /\ pc = "main" /\ argc = ExpectedArgc
    /\ params_json.kind = "malformed"
    /\ Raise("JSONDecodeError")
    /\ UNCHANGED <<argc, params_json, image, width, height, pass, contours,
                   contours_list, colors, nFound, svg_content, file, stdout>>
    /\ UNCHANGED <<monoVars, pathVars>>

\* line 203, json.loads returning
Parse ==
    /\ pc = "main" /\ argc = ExpectedArgc
    /\ params_json.kind # "malformed"
    /\ pc' = "imread"
    /\ UNCHANGED <<argc, params_json, image, width, height, pass, contours,
                   contours_list, colors, nFound, svg_content, file, stdout,
                   stderr, exit_code>>
    /\ UNCHANGED <<monoVars, pathVars>>

ImreadIsNoneNever(img) == FALSE

\* line 27
ImreadIsNone(img) == ~img.ok

\* lines 26-28, imread returning None
ReadImageFails ==
    /\ pc = "imread"
    /\ ImreadIsNone(image)
    /\ Raise("Could not read image")
    /\ UNCHANGED <<argc, params_json, image, width, height, pass, contours,
                   contours_list, colors, nFound, svg_content, file, stdout>>
    /\ UNCHANGED <<monoVars, pathVars>>

\* lines 26-31
ReadImage ==
    /\ pc = "imread"
    /\ ~ImreadIsNone(image)
    /\ height' = image.rows /\ width' = image.cols
    /\ stdout' = Append(stdout, [line |-> "Processing image", w |-> image.cols,
                                 h |-> image.rows])
    /\ pc' = "smooth"
    /\ UNCHANGED <<argc, params_json, image, pass, contours, contours_list,
                   colors, nFound, svg_content, file, stderr, exit_code>>
    /\ UNCHANGED <<monoVars, pathVars>>

\* line 34 on a value that is no dict: no attribute 'get'
SmoothFails ==
    /\ pc = "smooth"
    /\ params_json.kind = "nonobject"
    /\ Raise("AttributeError")
    /\ UNCHANGED <<argc, params_json, image, width, height, pass, contours,
                   contours_list, colors, nFound, svg_content, file, stdout>>
    /\ UNCHANGED <<monoVars, pathVars>>

\* lines 34-38
Smooth ==
    /\ pc = "smooth"
    /\ params_json.kind = "object"
    /\ contours_list' = <<>> /\ colors' = <<>>
    /\ pc' = "mode"
    /\ UNCHANGED <<argc, params_json, image, width, height, pass, contours,
                   nFound, svg_content, file, stdout, stderr, exit_code>>
    /\ UNCHANGED <<monoVars, pathVars>>

\* line 40, params['colorMode'] raising KeyError
ModeMissing ==
    /\ pc = "mode"
    /\ "colorMode" \notin DOMAIN params
    /\ Raise(KeyErrorText("colorMode"))
    /\ UNCHANGED <<argc, params_json, image, width, height, pass, contours,
                   contours_list, colors, nFound, svg_content, file, stdout>>
    /\ UNCHANGED <<monoVars, pathVars>>

\* lines 40, 90, 131: one of the three branches is entered
EnterBranch ==
    /\ pc = "mode"
    /\ "colorMode" \in DOMAIN params
    /\ ModeBranch(params.colorMode) # "none"
    /\ pass' = 1
    /\ pc' = "segment"
    /\ UNCHANGED <<argc, params_json, image, width, height, contours,
                   contours_list, colors, nFound, svg_content, file, stdout,
                   stderr, exit_code>>
    /\ UNCHANGED <<monoVars, pathVars>>

\* lines 40, 90, 131: no branch matches
NoBranch ==
    /\ pc = "mode"
    /\ "colorMode" \in DOMAIN params
    /\ ModeBranch(params.colorMode) = "none"
    /\ pc' = "svg"
    /\ UNCHANGED <<argc, params_json, image, width, height, pass, contours,
                   contours_list, colors, nFound, svg_content, file, stdout,
                   stderr, exit_code>>
    /\ UNCHANGED <<monoVars, pathVars>>

branch == ModeBranch(params.colorMode)

\* lines 42-73, 99-118, 134-160: the mask of the pass is built and its
\* contours are found
Segment ==
    /\ pc = "segment"
    /\ \E cs \in SeqsUpTo(Contours, MaxShapes - nFound) :
         /\ contours' = cs
         /\ nFound' = nFound + Len(cs)
         /\ stdout' = IF branch = "binary"
                        THEN Append(stdout, [line |-> "Found", n |-> Len(cs)])
                        ELSE stdout
    /\ pc' = "loop"
    /\ UNCHANGED <<argc, params_json, image, width, height, pass,
                   contours_list, colors, svg_content, file, stderr, exit_code>>
    /\ UNCHANGED <<monoVars, pathVars>>

\* lines 42-71, 99-115, 134-156: a library call of the pass raises
SegmentFails ==
    /\ pc = "segment"
    /\ Raise("cv2.error")
    /\ UNCHANGED <<argc, params_json, image, width, height, pass, contours,
                   contours_list, colors, nFound, svg_content, file, stdout>>
    /\ UNCHANGED <<monoVars, pathVars>>

\* lines 75-86, 120-129, 162-171: one contour, raising KeyError
VisitFails ==
    /\ pc = "loop" /\ contours # <<>>
    /\ LET r == LoopBody(Head(contours), params, PassColor(branch, pass), pass,
                         contours_list, colors)
       IN  /\ r.raised # ""
           /\ Raise(r.raised)
    /\ UNCHANGED <<argc, params_json, image, width, height, pass, contours,
                   contours_list, colors, nFound, svg_content, file, stdout>>
    /\ UNCHANGED <<monoVars, pathVars>>

\* lines 75-86, 120-129, 162-171: one contour
Visit ==
    /\ pc = "loop" /\ contours # <<>>
    /\ LET r == LoopBody(Head(contours), params, PassColor(branch, pass), pass,
                         contours_list, colors)
       IN  /\ r.raised = ""
           /\ contours_list' = r.contours_list
           /\ colors' = r.colors
    /\ contours' = Tail(contours)
    /\ UNCHANGED <<argc, params_json, image, pc, width, height, pass, nFound,
                   svg_content, file, stdout, stderr, exit_code>>
    /\ UNCHANGED <<monoVars, pathVars>>

EndPassWritesFile ==
    /\ pc = "loop" /\ contours = <<>>
    /\ stdout' = IF branch = "binary"
                   THEN Append(stdout, [line |-> "Kept", n |-> Len(contours_list)])
                   ELSE stdout
    /\ IF pass < NPasses(branch)
         THEN pass' = pass + 1 /\ pc' = "segment"
         ELSE pass' = pass /\ pc' = "svg"
    /\ file' = [state |-> "written",
                doc |-> [width |-> width, height |-> height,
                         paths |-> SvgPaths(contours_list, colors)]]
    /\ UNCHANGED <<argc, params_json, image, width, height, contours,
                   contours_list, colors, nFound, svg_content, stderr,
                   exit_code>>
    /\ UNCHANGED <<monoVars, pathVars>>

\* the loop over the contours of a mask ends (line 88 in binary mode); the
\* next level or channel follows, or the branch is left
EndPass ==
    /\ pc = "loop" /\ contours = <<>>
    /\ stdout' = IF branch = "binary"
                   THEN Append(stdout, [line |-> "Kept", n |-> Len(contours_list)])
                   ELSE stdout
    /\ IF pass < NPasses(branch)
         THEN pass' = pass + 1 /\ pc' = "segment"
         ELSE pass' = pass /\ pc' = "svg"
    /\ UNCHANGED <<argc, params_json, image, width, height, contours,
                   contours_list, colors, nFound, svg_content, file, stderr,
                   exit_code>>
    /\ UNCHANGED <<monoVars, pathVars>>

\* lines 174-184
GenerateSVG ==
    /\ pc = "svg"
    /\ svg_content' = [width |-> width, height |-> height,
                       paths |-> SvgPaths(contours_list, colors)]
    /\ pc' = "write"
    /\ UNCHANGED <<argc, params_json, image, width, height, pass, contours,
                   contours_list, colors, nFound, file, stdout, stderr,
                   exit_code>>
    /\ UNCHANGED <<monoVars, pathVars>>

\* lines 187-188
WriteFile ==
    /\ pc = "write"
    /\ file' = [state |-> "written", doc |-> svg_content]
    /\ pc' = "stats"
    /\ UNCHANGED <<argc, params_json, image, width, height, pass, contours,
                   contours_list, colors, nFound, svg_content, stdout, stderr,
                   exit_code>>
    /\ UNCHANGED <<monoVars, pathVars>>

\* line 187, open raising: the file is not touched
OpenFails ==
    /\ pc = "write"
    /\ Raise("OSError")
    /\ UNCHANGED <<argc, params_json, image, width, height, pass, contours,
                   contours_list, colors, nFound, svg_content, file, stdout>>
    /\ UNCHANGED <<monoVars, pathVars>>

\* line 188, write raising partway: the file holds some part of the document
WriteFails ==
    /\ pc = "write"
    /\ \E k \in 0..Len(svg_content.paths) :
         file' = [state |-> "partial",
                  doc |-> [svg_content EXCEPT !.paths = SubSeq(svg_content.paths, 1, k)]]
    /\ Raise("OSError")
    /\ UNCHANGED <<argc, params_json, image, width, height, pass, contours,
                   contours_list, colors, nFound, svg_content, stdout>>
    /\ UNCHANGED <<monoVars, pathVars>>

\* line 191
PrintStats ==
    /\ pc = "stats"
    /\ stdout' = Append(stdout, [line |-> "STATS", contours |-> Len(contours_list),
                                 points |-> SumLen(contours_list)])
    /\ pc' = "return"
    /\ UNCHANGED <<argc, params_json, image, width, height, pass, contours,
                   contours_list, colors, nFound, svg_content, file, stderr,
                   exit_code>>
    /\ UNCHANGED <<monoVars, pathVars>>

\* line 205 and the normal end of main
Success ==
    /\ pc = "return"
    /\ stdout' = Append(stdout, [line |-> "Conversion completed successfully"])
    /\ exit_code' = 0
    /\ pc' = "exit"
    /\ UNCHANGED <<argc, params_json, image, width, height, pass, contours,
                   contours_list, colors, nFound, svg_content, file, stderr>>
    /\ UNCHANGED <<monoVars, pathVars>>

Next ==
    \/ Usage \/ ParseFails \/ Parse
    \/ ReadImageFails \/ ReadImage
    \/ SmoothFails \/ Smooth
    \/ ModeMissing \/ EnterBranch \/ NoBranch
    \/ Segment \/ SegmentFails
    \/ VisitFails \/ Visit \/ EndPass
    \/ GenerateSVG \/ WriteFile \/ OpenFails \/ WriteFails
    \/ PrintStats \/ Success

Spec == Init /\ [][Next]_vars

\* ------------------------------------- two runs of the extractor, one image
\* the loops of one pass on the contours cs, unless the run has already raised
StepRun(run, cs, p) ==
    IF run.raised # "" THEN run
    ELSE LET r == RunLoop(cs, run.prm,
                          PassColor(ModeBranch(run.prm.colorMode), p), p,
                          run.contours_list, run.colors)
         IN  [run EXCEPT !.contours_list = r.contours_list,
                         !.colors = r.colors,
                         !.raised = r.raised]

\* runs A and B get the same image and parameters, except minArea: a <= b
InitMono ==
    /\ MainIdle /\ PathIdle
    /\ \E prm \in ParamObjects :
         /\ {"colorMode", "minArea"} \subseteq DOMAIN prm
         /\ ModeBranch(prm.colorMode) # "none"
         /\ \E b \in prm.minArea..MaxArea :
              /\ runA = [IdleRun EXCEPT !.prm = prm]
              /\ runB = [IdleRun EXCEPT !.prm = [prm EXCEPT !.minArea = b]]
    /\ mpass = 1
    /\ mFound = 0

\* one mask: both runs visit the contours the library finds in it
MonoPass ==
    /\ mpass >= 1
    /\ mpass <= NPasses(ModeBranch(runA.prm.colorMode))
    /\ \E cs \in SeqsUpTo(Contours, MaxShapes - mFound) :
         /\ runA' = StepRun(runA, cs, mpass)
         /\ runB' = StepRun(runB, cs, mpass)
         /\ mFound' = mFound + Len(cs)
    /\ mpass' = mpass + 1
    /\ UNCHANGED <<mainVars, pathVars>>

NextMono == MonoPass

SpecMono == InitMono /\ [][NextMono]_vars

\* ------------------------------------------- one call of create_svg_path
Points == (0..MaxCoord) \X (0..MaxCoord)

InitPath ==
    /\ MainIdle /\ MonoIdle
    /\ contour \in SeqsUpTo(Points, MaxVerts + 1)
    /\ path_data = <<>> /\ written = <<>> /\ called = FALSE

\* lines 180-182 for one shape
Serialize ==
    /\ ~called
    /\ path_data' = create_svg_path(contour, DefaultScale, DefaultScale)
    /\ written' = SvgPaths(<<[pts |-> contour]>>, <<Black>>)
    /\ called' = TRUE
    /\ UNCHANGED <<contour, mainVars, monoVars>>

NextPath == Serialize

SpecPath == InitPath /\ [][NextPath]_vars

\* ------------------------------------------------------------- vocabulary
Exited == pc = "exit"
ThreeArgs == argc = ExpectedArgc
IsObject == params_json.kind = "object"
MissingKeys == Keys \ DOMAIN params
RecognisedModes == {"binary", "grayscale", "color"}
HasError(message) == \E i \in DOMAIN stderr : stderr[i] = <<"Error:", message>>
HasLine(text) == \E i \in DOMAIN stdout : stdout[i].line = text
StatsLines == {i \in DOMAIN stdout : stdout[i].line = "STATS"}
\* the failure is the library's or the file system's, not the parameters'
EnvironmentFailed == HasError("cv2.error") \/ HasError("OSError")
\* vertices of a path string: its M and L commands
PathVertexCount(d) == Cardinality({i \in DOMAIN d : d[i].cmd \in {"M", "L"}})
CommandCount(d, c) == Cardinality({i \in DOMAIN d : d[i].cmd = c})

RECURSIVE SumPathVertices(_)
SumPathVertices(paths) ==
    IF paths = <<>> THEN 0
    ELSE PathVertexCount(Head(paths).d) + SumPathVertices(Tail(paths))

\* ---------------------------------------------------------------- claims

\* C1: with three arguments, a parameter object and a readable image, a run
\* whose object lacks colorMode, minArea or epsilon exits with code 1 and an
\* Error line naming a missing key, whatever contours are found.  (Runs that
\* the library or the file system fails are left aside.)
C1_MissingKeyExitsOne ==
    (Exited /\ ThreeArgs /\ IsObject /\ image.ok /\ MissingKeys # {}
        /\ ~EnvironmentFailed)
    => /\ exit_code = 1
       /\ \E k \in MissingKeys : HasError(KeyErrorText(k))

\* C2: in a successful run the STATS line's contours= is the number of <path>
\* elements in the written document and points= is the sum of the vertex
\* counts of those paths.
C2_StatsMatchDocument ==
    \A i \in StatsLines :
        /\ file.state = "written"
        /\ stdout[i].contours = Len(file.doc.paths)
        /\ stdout[i].points = SumPathVertices(file.doc.paths)

C2_Witness ==
    /\ Exited /\ exit_code = 0
    /\ nFound > Len(contours_list)
    /\ \E i \in StatsLines : stdout[i].contours >= 1 /\ stdout[i].points >= MinVertices

\* C3: the exit code is 0 exactly when the document was written and the STATS
\* line printed; a wrong argument count gives the usage line on stdout, exit
\* code 1 and nothing read or written; any failure in the pipeline gives exit
\* code 1, exactly one Error line on stderr and no success line.
C3_ExitCodes ==
    /\ Len(stderr) <= 1
    /\ Exited =>
        /\ exit_code \in {0, 1}
        /\ exit_code = 0 <=> (file.state = "written" /\ StatsLines # {})
        /\ exit_code = 0 =>
             /\ stderr = <<>>
             /\ stdout[Len(stdout)].line = "Conversion completed successfully"
        /\ ~ThreeArgs =>
             /\ exit_code = 1
             /\ stdout = <<[line |-> "Usage"]>>
             /\ stderr = <<>>
             /\ file = Untouched
             /\ width = 0 /\ height = 0
        /\ (ThreeArgs /\ exit_code = 1) =>
             /\ Len(stderr) = 1
             /\ stderr[1][1] = "Error:"
             /\ ~HasLine("Conversion completed successfully")
             /\ ~HasLine("Usage")
    /\ ~Exited => (stderr = <<>> /\ ~HasLine("Conversion completed successfully"))

C3_Witness ==
    /\ Exited /\ ThreeArgs /\ exit_code = 1
    /\ HasError("OSError")
    /\ contours_list # <<>>
    /\ file.state = "partial"

\* C4 as claimed: with three arguments and an input that cannot be decoded,
\* the run exits with code 1 and stderr holds "Error: Could not read image",
\* whatever the parameter argument is, JSON or not.
C4_UnreadableAlwaysReported ==
    (Exited /\ ThreeArgs /\ ~image.ok)
    => (exit_code = 1 /\ HasError("Could not read image"))

\* C4 as amended: with three arguments and an input that cannot be decoded,
\* the run exits with code 1; stderr holds "Error: Could not read image" and
\* nothing else when the parameter argument parses as JSON (with all keys,
\* with keys missing, or no object at all), and the JSON parse error alone
\* when it does not parse.
C4_UnreadableReportedAfterParse ==
    (Exited /\ ThreeArgs /\ ~image.ok)
    => /\ exit_code = 1
       /\ params_json.kind # "malformed"
            => stderr = << <<"Error:", "Could not read image">> >>
       /\ params_json.kind = "malformed"
            => stderr = << <<"Error:", "JSONDecodeError">> >>
       /\ file = Untouched

C4_Witness ==
    /\ Exited /\ ThreeArgs /\ ~image.ok
    /\ IsObject /\ MissingKeys = Keys
    /\ HasError("Could not read image")

\* C5: at every point of a run every shape in contours_list has at least 3
\* vertices and an area of at least the configured minArea.
C5_RetainedShapes ==
    \A i \in DOMAIN contours_list :
        /\ Len(contours_list[i].pts) >= 3
        /\ "minArea" \in DOMAIN params
        /\ contours_list[i].area >= params.minArea

C5_Witness ==
    /\ pc = "loop" /\ contours = <<>>
    /\ "minArea" \in DOMAIN params /\ params.minArea >= 1
    /\ Len(contours_list) >= 1
    /\ nFound > Len(contours_list)

\* C6: for a polygon of n >= 3 vertices create_svg_path gives one M command
\* with the first vertex, then n-1 L commands with the other vertices in
\* order, then Z, and one <path> element is written; for fewer than 3 vertices
\* it gives the empty string and no <path> element is written.
C6_PathShape ==
    called =>
        LET n == Len(contour) IN
        IF n >= 3
          THEN /\ Len(path_data) = n + 1
               /\ path_data[1] = [cmd |-> "M", x |-> contour[1][1], y |-> contour[1][2]]
               /\ \A i \in 2..n :
                    path_data[i] = [cmd |-> "L", x |-> contour[i][1], y |-> contour[i][2]]
               /\ path_data[n + 1].cmd = "Z"
               /\ CommandCount(path_data, "M") = 1
               /\ CommandCount(path_data, "L") = n - 1
               /\ PathVertexCount(path_data) = n
               /\ Len(written) = 1 /\ written[1].d = path_data
          ELSE path_data = <<>> /\ written = <<>>

C6_Witness ==
    /\ called
    /\ Len(contour) = MinVertices + 1
    /\ contour[1] # contour[2] /\ contour[2] # contour[3]
    /\ Len(written) = 1

\* C7: of two runs on the same image with the same colorMode and epsilon and
\* minArea values a <= b, the run with b never holds more retained shapes
\* than the run with a.
C7_MinAreaMonotone ==
    Len(runB.contours_list) <= Len(runA.contours_list)

C7_Witness ==
    /\ mpass > 1
    /\ runA.prm.minArea < runB.prm.minArea
    /\ Len(runB.contours_list) >= 1
    /\ Len(runB.contours_list) < Len(runA.contours_list)

C9_WriteAfterSegmentation ==
    /\ file # Untouched =>
         /\ pc \in {"stats", "return", "exit"}
         /\ IsObject /\ "colorMode" \in DOMAIN params
         /\ pass = NPasses(branch)
         /\ contours = <<>>
         /\ \A i \in DOMAIN stderr : stderr[i] = <<"Error:", "OSError">>
    /\ StatsLines # {} => (file.state = "written" /\ pc \in {"return", "exit"})
    /\ (Exited /\ exit_code = 1 /\ ~HasError("OSError")) =>
         (file = Untouched /\ StatsLines = {})

C9_Witness ==
    /\ Exited /\ exit_code = 1
    /\ HasError("cv2.error")
    /\ pass >= 2
    /\ contours_list # <<>>
    /\ file = Untouched /\ StatsLines = {}

\* the fill colour the claim gives to pass p of a mode
C10_ClaimedFill(mode, p) ==
    CASE mode = "binary" -> <<"#000000">>
      [] mode = "grayscale" -> <<"rgb", 255 - 32 * p, 255 - 32 * p, 255 - 32 * p>>
      [] mode = "color" /\ p = 1 -> <<"rgb", 0, 0, 255>>
      [] mode = "color" /\ p = 2 -> <<"rgb", 0, 255, 0>>
      [] mode = "color" /\ p = 3 -> <<"rgb", 255, 0, 0>>

\* C10: contours_list and colors stay index-aligned, and every written <path>
\* has the fill colour of the pass its shape came from: #000000 in binary
\* mode, rgb(g,g,g) with g = 255 - level in grayscale mode, and rgb(0,0,255),
\* rgb(0,255,0), rgb(255,0,0) for channels 0, 1, 2 in color mode.
C10_FillOfPass ==
    /\ Len(colors) = Len(contours_list)
    /\ \A i \in DOMAIN contours_list :
         colors[i] = C10_ClaimedFill(branch, contours_list[i].pass)
    /\ file.state = "written" =>
         /\ Len(file.doc.paths) = Len(contours_list)
         /\ \A i \in DOMAIN file.doc.paths :
              /\ file.doc.paths[i].d
                   = create_svg_path(contours_list[i].pts, DefaultScale, DefaultScale)
              /\ file.doc.paths[i].fill
                   = C10_ClaimedFill(branch, contours_list[i].pass)

C10_Witness ==
    /\ file.state = "written"
    /\ IsObject /\ "colorMode" \in DOMAIN params /\ params.colorMode = "color"
    /\ Len(file.doc.paths) = 2
    /\ file.doc.paths[1].fill = <<"rgb", 0, 0, 255>>
    /\ file.doc.paths[2].fill = <<"rgb", 255, 0, 0>>
====
